---- MODULE Spec2Model ----
(***************************************************************************)
(* Model of the crypto trading bot's analysis core: the OHLCV data frame,  *)
(* the indicator library (technical_analysis.py, custom_indicators.py),    *)
(* the signal engine and the dashboard pipeline (main.py), and the data    *)
(* fetcher's error handling (data_fetcher.py).                             *)
(*                                                                         *)
(* Numbers are exact: a float is NaN, a signed infinity, a rational n/d in *)
(* lowest terms, or (for the Bollinger bands, whose offset is a square     *)
(* root) a value n/d + c*sqrt(vn/vd).  Division follows IEEE-754 as numpy  *)
(* applies it to a Series: x/0 is an infinity, 0/0 is NaN, and every       *)
(* comparison with NaN is false.  Rounding error is not modelled.          *)
(***************************************************************************)
EXTENDS Integers, Sequences, FiniteSets, TLC

VARIABLES pc, raw, data, returned, errors, params, applied, signals

vars == <<pc, raw, data, returned, errors, params, applied, signals>>

---------------------------------------------------------------------------
(* Bounds of the model *)

\* longest series the exchange answers with in the dashboard pipeline
MaxBars == 2
\* longest series handed to the rolling-window indicators
MaxLen == 3
\* longest series handed to the whole library applied in any order
MaxLenLib == 2
\* largest window / lag given to a rolling indicator
MaxPeriod == 2

\* prices of the bars the exchange answers with (high, low, close independent)
Prices == 1..3
\* prices of the bars handed directly to the library
LibPrices == 1..2

---------------------------------------------------------------------------
(* Program constants *)

RSI_PERIOD == 14
MACD_FAST == 12
MACD_SLOW == 26
MACD_SIGNAL == 9
BB_PERIOD == 20
BB_STD == 2
FIB_PERIOD == 14
SR_WINDOW == 20
MOMENTUM_PERIOD == 14
rsi_overbought == 70
rsi_oversold == 30

---------------------------------------------------------------------------
(* Floating-point values, exactly *)

Abs(x) == IF x < 0 THEN -x ELSE x

Sgn(x) == IF x < 0 THEN -1 ELSE IF x > 0 THEN 1 ELSE 0

RECURSIVE GCD(_, _)
GCD(a, b) == IF b = 0 THEN a ELSE GCD(b, a % b)

NaN == [k |-> "nan"]

Inf(s) == [k |-> "inf", s |-> s]

\* the rational n/d, d # 0, in lowest terms with a positive denominator
Num(n, d) ==
    LET g == GCD(Abs(n), Abs(d))
        s == IF d < 0 THEN -1 ELSE 1
    IN  [k |-> "num", n |-> s * (n \div g), d |-> s * (d \div g)]

Int2V(i) == Num(i, 1)

IsNaN(a) == a.k = "nan"

\* a value that is not the "undefined" sentinel
Defined(a) == a.k # "nan"

Neg(a) ==
    CASE a.k = "nan" -> NaN
      [] a.k = "inf" -> Inf(-a.s)
      [] OTHER -> Num(-a.n, a.d)

Add(a, b) ==
    CASE a.k = "nan" \/ b.k = "nan" -> NaN
      [] a.k = "inf" /\ b.k = "inf" -> IF a.s = b.s THEN a ELSE NaN
      [] a.k = "inf" -> a
      [] b.k = "inf" -> b
      [] OTHER ->
           LET g == GCD(a.d, b.d)
           IN  Num(a.n * (b.d \div g) + b.n * (a.d \div g), (a.d \div g) * b.d)

Sub(a, b) == Add(a, Neg(b))

Mul(a, b) ==
    CASE a.k = "nan" \/ b.k = "nan" -> NaN
      [] a.k = "inf" /\ b.k = "inf" -> Inf(a.s * b.s)
      [] a.k = "inf" -> IF b.n = 0 THEN NaN ELSE Inf(a.s * Sgn(b.n))
      [] b.k = "inf" -> IF a.n = 0 THEN NaN ELSE Inf(b.s * Sgn(a.n))
      [] OTHER ->
           LET g1 == GCD(Abs(a.n), b.d)
               g2 == GCD(Abs(b.n), a.d)
           IN  Num((a.n \div g1) * (b.n \div g2), (a.d \div g2) * (b.d \div g1))

\* variant: any division by zero is undefined
DivZeroNaN(a, b) ==
    CASE a.k = "nan" \/ b.k = "nan" -> NaN
      [] b.k = "inf" -> IF a.k = "inf" THEN NaN ELSE Int2V(0)
      [] a.k = "inf" -> Inf(a.s * (IF b.n < 0 THEN -1 ELSE 1))
      [] b.n = 0 -> NaN
      [] OTHER -> Mul(a, Num(b.d, b.n))

\* numpy's elementwise division: no exception, x/0 = +-inf, 0/0 = nan
Div(a, b) ==
    CASE a.k = "nan" \/ b.k = "nan" -> NaN
      [] b.k = "inf" -> IF a.k = "inf" THEN NaN ELSE Int2V(0)
      [] a.k = "inf" -> Inf(a.s * (IF b.n < 0 THEN -1 ELSE 1))
      [] b.n = 0 -> IF a.n = 0 THEN NaN ELSE Inf(Sgn(a.n))
      [] OTHER -> Mul(a, Num(b.d, b.n))

\* sign of x + c*sqrt(v) for rationals x, v >= 0 and an integer c
SurdSign(x, c, v) ==
    LET sx == Sgn(x.n)
        sc == IF v.n = 0 THEN 0 ELSE Sgn(c)
    IN  IF sx = 0 THEN sc
        ELSE IF sc = 0 \/ sc = sx THEN sx
        ELSE LET d == Sub(Mul(x, x), Mul(Int2V(c * c), v))
             IN  IF d.n = 0 THEN 0 ELSE IF d.n > 0 THEN sx ELSE sc

\* the value m + c*sqrt(v): what "middle + std * std_dev" evaluates to
Surd(m, c, v) ==
    CASE m.k = "nan" \/ v.k = "nan" -> NaN
      [] v.n = 0 \/ c = 0 -> m
      [] OTHER -> [k |-> "surd", n |-> m.n, d |-> m.d, c |-> c, vn |-> v.n, vd |-> v.d]

\* a < b as the float comparison decides it; false when either is NaN
Lt(a, b) ==
    CASE a.k = "nan" \/ b.k = "nan" -> FALSE
      [] a.k = "inf" /\ b.k = "inf" -> a.s < b.s
      [] a.k = "inf" -> a.s < 0
      [] b.k = "inf" -> b.s > 0
      [] a.k = "num" /\ b.k = "num" -> Sub(a, b).n < 0
      [] a.k = "num" /\ b.k = "surd" ->
           SurdSign(Sub(a, Num(b.n, b.d)), -b.c, Num(b.vn, b.vd)) < 0
      [] a.k = "surd" /\ b.k = "num" ->
           SurdSign(Sub(Num(a.n, a.d), b), a.c, Num(a.vn, a.vd)) < 0
      [] OTHER -> FALSE

Gt(a, b) == Lt(b, a)

Le(a, b) == Defined(a) /\ Defined(b) /\ ~Lt(b, a)

---------------------------------------------------------------------------
(* The data frame: an index of timestamps and named columns of values *)

\* pd.DataFrame(): no columns, no rows
EmptyFrame == [index |-> <<>>, cols |-> <<>>]

Columns(df) == DOMAIN df.cols

NRows(df) == Len(df.index)

\* variant: only a frame without columns counts as empty
IsEmptyNoColumns(df) == Columns(df) = {}

\* DataFrame.empty: true when either axis has length 0
IsEmpty(df) == Columns(df) = {} \/ NRows(df) = 0

\* df[name] = values: adds the column, or overwrites it in place
SetCol(df, name, values) == [df EXCEPT !.cols = (name :> values) @@ df.cols]

\* series.iloc[-1]
Last(s) == s[Len(s)]

\* a + b, a - b, a * x on whole columns
SeqAdd(a, b) == [i \in 1..Len(a) |-> Add(a[i], b[i])]

SeqSub(a, b) == [i \in 1..Len(a) |-> Sub(a[i], b[i])]

SeqScale(a, x) == [i \in 1..Len(a) |-> Mul(a[i], x)]

\* series.diff(lag): undefined for the first lag positions
Diff(s, lag) ==
    [i \in 1..Len(s) |-> IF i <= lag THEN NaN ELSE Sub(s[i], s[i - lag])]

RECURSIVE SumRange(_, _, _)
SumRange(s, lo, hi) ==
    IF lo > hi THEN Int2V(0) ELSE Add(SumRange(s, lo, hi - 1), s[hi])

RECURSIVE MaxRange(_, _, _)
MaxRange(s, lo, hi) ==
    IF lo = hi THEN s[hi]
    ELSE LET m == MaxRange(s, lo, hi - 1)
         IN  IF IsNaN(m) \/ IsNaN(s[hi]) THEN NaN
             ELSE IF Lt(m, s[hi]) THEN s[hi] ELSE m

RECURSIVE MinRange(_, _, _)
MinRange(s, lo, hi) ==
    IF lo = hi THEN s[hi]
    ELSE LET m == MinRange(s, lo, hi - 1)
         IN  IF IsNaN(m) \/ IsNaN(s[hi]) THEN NaN
             ELSE IF Lt(s[hi], m) THEN s[hi] ELSE m

\* variant: min_periods=1, a mean over the bars seen so far
RollingMeanMinPeriods1(s, p) ==
    [i \in 1..Len(s) |->
        LET lo == IF i < p THEN 1 ELSE i - p + 1
        IN  Div(SumRange(s, lo, i), Int2V(i - lo + 1))]

\* series.rolling(window=p).mean(): min_periods defaults to the window
RollingMean(s, p) ==
    [i \in 1..Len(s) |->
        IF i < p THEN NaN ELSE Div(SumRange(s, i - p + 1, i), Int2V(p))]

RollingMax(s, p) ==
    [i \in 1..Len(s) |-> IF i < p THEN NaN ELSE MaxRange(s, i - p + 1, i)]

RollingMin(s, p) ==
    [i \in 1..Len(s) |-> IF i < p THEN NaN ELSE MinRange(s, i - p + 1, i)]

\* the square of series.rolling(window=p).std(): the sample variance (ddof=1),
\* which is 0/0 = NaN for a window of one value
RollingVar(s, p) ==
    LET mean == RollingMean(s, p)
    IN  [i \in 1..Len(s) |->
            IF i < p THEN NaN
            ELSE LET dev == [j \in 1..p |->
                                LET e == Sub(s[i - p + j], mean[i]) IN Mul(e, e)]
                 IN  Div(SumRange(dev, 1, p), Int2V(p - 1))]

\* series.ewm(span=span, adjust=False).mean()
RECURSIVE EwmAt(_, _, _)
EwmAt(s, span, i) ==
    LET alpha == Num(2, span + 1)
    IN  IF i = 1 THEN s[1]
        ELSE Add(Mul(EwmAt(s, span, i - 1), Sub(Int2V(1), alpha)), Mul(s[i], alpha))

Ewm(s, span) == [i \in 1..Len(s) |-> EwmAt(s, span, i)]

---------------------------------------------------------------------------
(* TechnicalAnalyzer (analysis/technical_analysis.py) *)

\* delta.where(delta > 0, 0): NaN > 0 is false, so the first delta becomes 0
GainPart(delta) ==
    [i \in 1..Len(delta) |-> IF Gt(delta[i], Int2V(0)) THEN delta[i] ELSE Int2V(0)]

\* -delta.where(delta < 0, 0)
LossPart(delta) ==
    [i \in 1..Len(delta) |->
        Neg(IF Lt(delta[i], Int2V(0)) THEN delta[i] ELSE Int2V(0))]

RsiGain(close, p) == RollingMean(GainPart(Diff(close, 1)), p)

RsiLoss(close, p) == RollingMean(LossPart(Diff(close, 1)), p)

\* 100 - (100 / (1 + rs)) with rs = gain / loss
RsiSeries(close, p) ==
    LET gain == RsiGain(close, p)
        loss == RsiLoss(close, p)
    IN  [i \in 1..Len(close) |->
            Sub(Int2V(100),
                Div(Int2V(100), Add(Int2V(1), Div(gain[i], loss[i]))))]

calculate_rsi(df, p) == SetCol(df, "RSI", RsiSeries(df.cols["close"], p))

calculate_macd(df, short_period, long_period, signal_period) ==
    LET exp1 == Ewm(df.cols["close"], short_period)
        exp2 == Ewm(df.cols["close"], long_period)
        df1  == SetCol(df, "MACD", SeqSub(exp1, exp2))
    IN  SetCol(df1, "Signal_Line", Ewm(df1.cols["MACD"], signal_period))

calculate_bollinger_bands(df, p, std_dev) ==
    LET df1 == SetCol(df, "BB_middle", RollingMean(df.cols["close"], p))
        var == RollingVar(df1.cols["close"], p)
        mid == df1.cols["BB_middle"]
        df2 == SetCol(df1, "BB_upper",
                      [i \in 1..NRows(df) |-> Surd(mid[i], std_dev, var[i])])
    IN  SetCol(df2, "BB_lower",
               [i \in 1..NRows(df) |-> Surd(df2.cols["BB_middle"][i], -std_dev, var[i])])

\* variant: the level measured down from the high
FibLevelSwapped(low_min, diff, thousandths) ==
    SeqAdd(low_min, SeqScale(diff, Num(1000 - thousandths, 1000)))

\* low_min + diff * fraction, the fraction in thousandths
FibLevel(low_min, diff, thousandths) ==
    SeqAdd(low_min, SeqScale(diff, Num(thousandths, 1000)))

calculate_fibonacci_levels(df, p) ==
    LET high_max == RollingMax(df.cols["high"], p)
        low_min  == RollingMin(df.cols["low"], p)
        diff     == SeqSub(high_max, low_min)
    IN  [df EXCEPT !.cols =
            ("Fib_0" :> low_min) @@
            ("Fib_236" :> FibLevel(low_min, diff, 236)) @@
            ("Fib_382" :> FibLevel(low_min, diff, 382)) @@
            ("Fib_500" :> FibLevel(low_min, diff, 500)) @@
            ("Fib_618" :> FibLevel(low_min, diff, 618)) @@
            ("Fib_100" :> high_max) @@ df.cols]

---------------------------------------------------------------------------
(* custom indicators (indicators/custom_indicators.py) *)

\* variant: the lows are clipped in place before the window is taken
calculate_support_resistance_in_place(df, window) ==
    LET df1 == SetCol(df, "low", RollingMin(df.cols["low"], window))
        df2 == SetCol(df1, "Support", df1.cols["low"])
    IN  SetCol(df2, "Resistance", RollingMax(df2.cols["high"], window))

calculate_support_resistance(df, window) ==
    LET df1 == SetCol(df, "Support", RollingMin(df.cols["low"], window))
    IN  SetCol(df1, "Resistance", RollingMax(df1.cols["high"], window))

calculate_momentum(df, p) == SetCol(df, "Momentum", Diff(df.cols["close"], p))

\* variant: R1 and S1 with the high and the low exchanged
calculate_pivot_points_exchanged(df) ==
    LET two == Int2V(2)
        df1 == SetCol(df, "PP",
                      SeqScale(SeqAdd(SeqAdd(df.cols["high"], df.cols["low"]),
                                      df.cols["close"]), Num(1, 3)))
        df2 == SetCol(df1, "R1", SeqSub(SeqScale(df1.cols["PP"], two), df1.cols["high"]))
        df3 == SetCol(df2, "S1", SeqSub(SeqScale(df2.cols["PP"], two), df2.cols["low"]))
        df4 == SetCol(df3, "R2",
                      SeqAdd(df3.cols["PP"], SeqSub(df3.cols["high"], df3.cols["low"])))
    IN  SetCol(df4, "S2",
               SeqSub(df4.cols["PP"], SeqSub(df4.cols["high"], df4.cols["low"])))

\* variant: the rolling extremes stand in for the bar's own when the frame
\* already holds them
calculate_pivot_points_from_levels(df) ==
    LET two  == Int2V(2)
        high == IF "Resistance" \in Columns(df) THEN df.cols["Resistance"]
                ELSE df.cols["high"]
        low  == IF "Support" \in Columns(df) THEN df.cols["Support"]
                ELSE df.cols["low"]
        df1  == SetCol(df, "PP",
                       SeqScale(SeqAdd(SeqAdd(high, low), df.cols["close"]), Num(1, 3)))
        df2  == SetCol(df1, "R1", SeqSub(SeqScale(df1.cols["PP"], two), low))
        df3  == SetCol(df2, "S1", SeqSub(SeqScale(df2.cols["PP"], two), high))
        df4  == SetCol(df3, "R2", SeqAdd(df3.cols["PP"], SeqSub(high, low)))
    IN  SetCol(df4, "S2", SeqSub(df4.cols["PP"], SeqSub(high, low)))

calculate_pivot_points(df) ==
    LET two == Int2V(2)
        df1 == SetCol(df, "PP",
                      SeqScale(SeqAdd(SeqAdd(df.cols["high"], df.cols["low"]),
                                      df.cols["close"]), Num(1, 3)))
        df2 == SetCol(df1, "R1", SeqSub(SeqScale(df1.cols["PP"], two), df1.cols["low"]))
        df3 == SetCol(df2, "S1", SeqSub(SeqScale(df2.cols["PP"], two), df2.cols["high"]))
        df4 == SetCol(df3, "R2",
                      SeqAdd(df3.cols["PP"], SeqSub(df3.cols["high"], df3.cols["low"])))
    IN  SetCol(df4, "S2",
               SeqSub(df4.cols["PP"], SeqSub(df4.cols["high"], df4.cols["low"])))

---------------------------------------------------------------------------
(* The signal engine (main.py, generate_trading_signals) *)

BUY == "BUY"

SELL == "SELL"

None == "None"

\* signals = {'action': None, 'confidence': 0, 'reasons': []}
NewSignals == [action |-> None, confidence |-> Int2V(0), reasons |-> <<>>]

\* variant: the first rule to fire keeps the action
FireKeepFirst(sig, action, weight, reason) ==
    [action     |-> IF sig.action = None THEN action ELSE sig.action,
     confidence |-> Add(sig.confidence, weight),
     reasons    |-> Append(sig.reasons, reason)]

\* reasons.append(..); confidence += weight; action = ..
Fire(sig, action, weight, reason) ==
    [action     |-> action,
     confidence |-> Add(sig.confidence, weight),
     reasons    |-> Append(sig.reasons, reason)]

\* the reason is kept without the RSI value it formats to two decimals
RsiRule(sig, df) ==
    LET latest_rsi == Last(df.cols["RSI"])
    IN  IF Lt(latest_rsi, Int2V(rsi_oversold))
          THEN Fire(sig, BUY, Num(3, 10), "RSI oversold")
        ELSE IF Gt(latest_rsi, Int2V(rsi_overbought))
          THEN Fire(sig, SELL, Num(3, 10), "RSI overbought")
        ELSE sig

\* variant: "else" for "elif", so equality counts as a cross below
MacdRuleAlwaysFires(sig, df) ==
    IF Gt(Last(df.cols["MACD"]), Last(df.cols["Signal_Line"]))
      THEN Fire(sig, BUY, Num(3, 10), "MACD crossed above signal line")
    ELSE Fire(sig, SELL, Num(3, 10), "MACD crossed below signal line")

MacdRule(sig, df) ==
    IF Gt(Last(df.cols["MACD"]), Last(df.cols["Signal_Line"]))
      THEN Fire(sig, BUY, Num(3, 10), "MACD crossed above signal line")
    ELSE IF Lt(Last(df.cols["MACD"]), Last(df.cols["Signal_Line"]))
      THEN Fire(sig, SELL, Num(3, 10), "MACD crossed below signal line")
    ELSE sig

BollingerRule(sig, df) ==
    LET latest_close == Last(df.cols["close"])
    IN  IF Lt(latest_close, Last(df.cols["BB_lower"]))
          THEN Fire(sig, BUY, Num(2, 10), "Price below lower Bollinger Band")
        ELSE IF Gt(latest_close, Last(df.cols["BB_upper"]))
          THEN Fire(sig, SELL, Num(2, 10), "Price above upper Bollinger Band")
        ELSE sig

generate_trading_signals(df) ==
    BollingerRule(MacdRule(RsiRule(NewSignals, df), df), df)

\* the columns generate_trading_signals indexes (a missing one is a KeyError)
SignalColumns == {"RSI", "MACD", "Signal_Line", "close", "BB_lower", "BB_upper"}

---------------------------------------------------------------------------
(* The data fetcher (utils/data_fetcher.py) and the pipeline (main.py) *)

RawColumns == {"open", "high", "low", "close", "volume"}

\* one OHLCV row as the exchange lists it
BarsOver(P) == [open : {1}, high : P, low : P, close : P, volume : {1}]

SeqsBetween(S, lo, hi) == UNION {[1..n -> S] : n \in lo..hi}

\* pd.DataFrame(ohlcv, columns=[...]) indexed by timestamp
Frame(bars) ==
    [index |-> [i \in 1..Len(bars) |-> i],
     cols  |-> [c \in RawColumns |-> [i \in 1..Len(bars) |-> Int2V(bars[i][c])]]]

\* the exchange either raises or answers with a list of bars
ExchangeAnswers ==
    {[ok |-> FALSE, bars |-> <<>>]} \cup
    {[ok |-> TRUE, bars |-> b] : b \in SeqsBetween(BarsOver(Prices), 0, MaxBars)}

\* try: .. return df / except Exception: return pd.DataFrame()
fetch_ohlcv(answer) == IF answer.ok THEN Frame(answer.bars) ELSE EmptyFrame

DefaultParams ==
    [rsi |-> RSI_PERIOD, fast |-> MACD_FAST, slow |-> MACD_SLOW,
     signal |-> MACD_SIGNAL, bb |-> BB_PERIOD, std |-> BB_STD,
     fib |-> FIB_PERIOD, sr |-> SR_WINDOW, momentum |-> MOMENTUM_PERIOD]

\* the rolling windows and the lag set to p, the rest left at its default
ParamsWith(p) ==
    [DefaultParams EXCEPT !.rsi = p, !.bb = p, !.fib = p, !.sr = p, !.momentum = p]

calculate_all_indicators(df, P) ==
    calculate_fibonacci_levels(
        calculate_bollinger_bands(
            calculate_macd(calculate_rsi(df, P.rsi), P.fast, P.slow, P.signal),
            P.bb, P.std),
        P.fib)

\* the indicator part of fetch_and_analyze_data, in its order
Analyze(df, P) ==
    calculate_pivot_points(
        calculate_momentum(
            calculate_support_resistance(calculate_all_indicators(df, P), P.sr),
            P.momentum))

AllOps == {"rsi", "macd", "bollinger", "fibonacci", "support_resistance",
           "momentum", "pivot"}

---------------------------------------------------------------------------
(* The dashboard: display_trading_dashboard runs fetch_and_analyze_data and, *)
(* when it returned a frame, generate_trading_signals                       *)

Init ==
    /\ pc = "start"
    /\ raw = EmptyFrame
    /\ data = EmptyFrame
    /\ returned = "pending"
    /\ errors = <<>>
    /\ params = DefaultParams
    /\ applied = {}
    /\ signals = <<>>

\* fetch_and_analyze_data(symbol): fetch, the empty check, then every indicator
FetchAndAnalyzeData ==
    /\ pc = "start"
    /\ \E answer \in ExchangeAnswers :
         LET d == fetch_ohlcv(answer)
         IN  /\ raw' = d
             /\ IF IsEmpty(d)
                  THEN /\ errors' = Append(errors, "Failed to fetch data")
                       /\ returned' = "None"
                       /\ data' = d
                       /\ applied' = applied
                  ELSE /\ errors' = errors
                       /\ returned' = "frame"
                       /\ data' = Analyze(d, params)
                       /\ applied' = AllOps
    /\ pc' = "fetched"
    /\ UNCHANGED <<params, signals>>

\* "if data is not None": signals = generate_trading_signals(data)
\* (iloc[-1] of a frame without rows raises, and the handler ends there)
DashboardSignals ==
    /\ pc = "fetched"
    /\ returned = "frame"
    /\ NRows(data) > 0
    /\ signals' = <<generate_trading_signals(data)>>
    /\ pc' = "done"
    /\ UNCHANGED <<raw, data, returned, errors, params, applied>>

\* data is None: nothing is plotted and no signal is generated
DashboardSkip ==
    /\ pc = "fetched"
    /\ returned = "None"
    /\ pc' = "done"
    /\ UNCHANGED <<raw, data, returned, errors, params, applied, signals>>

Next == FetchAndAnalyzeData \/ DashboardSignals \/ DashboardSkip

Spec == Init /\ [][Next]_vars

---------------------------------------------------------------------------
(* The library called directly on a frame, each operation at most once and  *)
(* in any order, with the rolling windows and the lag as parameters         *)

InitLibrary(bars_of, maxlen) ==
    /\ pc = "library"
    /\ \E bars \in SeqsBetween(bars_of, 0, maxlen) : raw = Frame(bars)
    /\ data = raw
    /\ returned = "pending"
    /\ errors = <<>>
    /\ \E p \in 1..MaxPeriod : params = ParamsWith(p)
    /\ applied = {}
    /\ signals = <<>>

Apply(op, df) ==
    /\ pc = "library"
    /\ op \notin applied
    /\ data' = df
    /\ applied' = applied \cup {op}
    /\ UNCHANGED <<pc, raw, returned, errors, params, signals>>

CalculateRsi == Apply("rsi", calculate_rsi(data, params.rsi))

CalculateMacd ==
    Apply("macd", calculate_macd(data, params.fast, params.slow, params.signal))

CalculateBollingerBands ==
    Apply("bollinger", calculate_bollinger_bands(data, params.bb, params.std))

CalculateFibonacciLevels ==
    Apply("fibonacci", calculate_fibonacci_levels(data, params.fib))

CalculateSupportResistance ==
    Apply("support_resistance", calculate_support_resistance(data, params.sr))

CalculateMomentum == Apply("momentum", calculate_momentum(data, params.momentum))

CalculatePivotPoints == Apply("pivot", calculate_pivot_points(data))

\* generate_trading_signals(data) on a frame that holds the columns it reads
GenerateTradingSignals ==
    /\ pc \in {"library", "engine"}
    /\ signals = <<>>
    /\ SignalColumns \subseteq Columns(data)
    /\ NRows(data) > 0
    /\ signals' = <<generate_trading_signals(data)>>
    /\ UNCHANGED <<pc, raw, data, returned, errors, params, applied>>

\* the rolling-window indicators on series of up to MaxLen bars, in the order
\* the analysis pass calls them
InitRolling == InitLibrary(BarsOver(LibPrices), MaxLen)

RollingRsi == applied = {} /\ CalculateRsi

RollingBollingerBands == applied = {"rsi"} /\ CalculateBollingerBands

RollingFibonacciLevels == applied = {"rsi", "bollinger"} /\ CalculateFibonacciLevels

RollingSupportResistance ==
    applied = {"rsi", "bollinger", "fibonacci"} /\ CalculateSupportResistance

NextRolling ==
    \/ RollingRsi
    \/ RollingBollingerBands
    \/ RollingFibonacciLevels
    \/ RollingSupportResistance

SpecRolling == InitRolling /\ [][NextRolling]_vars

\* the whole library and the signal engine on series of up to MaxLenLib bars
\* bars of the any-order runs: the low fixed, the high and the close free
OrderBars == [open : {1}, high : LibPrices, low : {1}, close : LibPrices, volume : {1}]

InitLib == InitLibrary(OrderBars, MaxLenLib)

NextLib ==
    \/ CalculateRsi
    \/ CalculateMacd
    \/ CalculateBollingerBands
    \/ CalculateFibonacciLevels
    \/ CalculateSupportResistance
    \/ CalculateMomentum
    \/ CalculatePivotPoints
    \/ GenerateTradingSignals

SpecLib == InitLib /\ [][NextLib]_vars

---------------------------------------------------------------------------
(* The signal engine on the last row of an enriched frame, every latest     *)
(* value drawn independently, undefined included                            *)

RsiInputs == {NaN} \cup {Int2V(v) : v \in {0, 25, 30, 50, 70, 75, 100}}

MacdInputs == {NaN} \cup {Int2V(v) : v \in {-1, 0, 1}}

CloseInputs == {Int2V(v) : v \in 1..3}

BandInputs == {NaN} \cup {Int2V(v) : v \in 1..3}

InitEngine ==
    /\ pc = "engine"
    /\ \E r \in RsiInputs, m \in MacdInputs, s \in MacdInputs,
          c \in CloseInputs, lo \in BandInputs, up \in BandInputs :
         raw = [index |-> <<1>>,
                cols  |-> [RSI |-> <<r>>, MACD |-> <<m>>, Signal_Line |-> <<s>>,
                           close |-> <<c>>, BB_lower |-> <<lo>>, BB_upper |-> <<up>>]]
    /\ data = raw
    /\ returned = "pending"
    /\ errors = <<>>
    /\ params = DefaultParams
    /\ applied = {}
    /\ signals = <<>>

NextEngine == GenerateTradingSignals

SpecEngine == InitEngine /\ [][NextEngine]_vars

---------------------------------------------------------------------------
(* Properties of the signal engine *)

Latest(c) == Last(data.cols[c])

Signal == signals[1]

\* the direction each rule group takes on the latest values, None when it
\* does not fire
RsiDirection ==
    IF Lt(Latest("RSI"), Int2V(30)) THEN BUY
    ELSE IF Lt(Int2V(70), Latest("RSI")) THEN SELL ELSE None

MacdDirection ==
    IF Lt(Latest("Signal_Line"), Latest("MACD")) THEN BUY
    ELSE IF Lt(Latest("MACD"), Latest("Signal_Line")) THEN SELL ELSE None

BollingerDirection ==
    IF Lt(Latest("close"), Latest("BB_lower")) THEN BUY
    ELSE IF Lt(Latest("BB_upper"), Latest("close")) THEN SELL ELSE None

FiredDirections ==
    SelectSeq(<<RsiDirection, MacdDirection, BollingerDirection>>,
              LAMBDA d : d # None)

\* C1: the action returned by generate_trading_signals is the direction of
\* the last rule that fired in the order RSI, MACD, Bollinger (earlier rules
\* are masked), and it is None exactly when no rule fired.
C1_LastRuleWins ==
    signals # <<>> =>
        /\ Signal.action =
             IF FiredDirections = <<>> THEN None
             ELSE FiredDirections[Len(FiredDirections)]
        /\ (Signal.action = None) <=> (FiredDirections = <<>>)

\* RSI and MACD fired SELL and the Bollinger rule, last, fired BUY
C1_Witness ==
    /\ signals # <<>>
    /\ RsiDirection = SELL
    /\ MacdDirection = SELL
    /\ BollingerDirection = BUY
    /\ Signal.action = BUY

AllLatestDefined == \A c \in SignalColumns : Defined(Latest(c))

\* the rule group a reason belongs to
RuleOf(reason) ==
    CASE reason \in {"RSI oversold", "RSI overbought"} -> "RSI"
      [] reason \in {"MACD crossed above signal line",
                     "MACD crossed below signal line"} -> "MACD"
      [] OTHER -> "Bollinger"

ExpectedRsiFires ==
    Lt(Latest("RSI"), Int2V(30)) \/ Lt(Int2V(70), Latest("RSI"))

ExpectedMacdFires == Latest("MACD") # Latest("Signal_Line")

ExpectedBollingerFires ==
    Lt(Latest("close"), Latest("BB_lower")) \/ Lt(Latest("BB_upper"), Latest("close"))

ExpectedConfidence ==
    Add(Add(IF ExpectedRsiFires THEN Num(3, 10) ELSE Int2V(0),
            IF ExpectedMacdFires THEN Num(3, 10) ELSE Int2V(0)),
        IF ExpectedBollingerFires THEN Num(2, 10) ELSE Int2V(0))

ExpectedRules ==
    (IF ExpectedRsiFires THEN <<"RSI">> ELSE <<>>) \o
    (IF ExpectedMacdFires THEN <<"MACD">> ELSE <<>>) \o
    (IF ExpectedBollingerFires THEN <<"Bollinger">> ELSE <<>>)

AllThreeBuy ==
    /\ Latest("RSI") = Int2V(25)
    /\ Lt(Latest("Signal_Line"), Latest("MACD"))
    /\ Lt(Latest("close"), Latest("BB_lower"))

\* C2: with every indicator defined, confidence is the sum of the weights of
\* exactly the rules that fired (RSI 0.3, MACD 0.3 unless MACD = Signal_Line,
\* Bollinger 0.2), reasons holds one entry per fired rule in the order RSI,
\* MACD, Bollinger, confidence never exceeds 0.8, and RSI = 25 with
\* MACD > Signal_Line and close < BB_lower gives BUY, 0.8 and 3 reasons.
C2_ConfidenceIsSumOfWeights ==
    (signals # <<>> /\ AllLatestDefined) =>
        /\ Signal.confidence = ExpectedConfidence
        /\ [i \in 1..Len(Signal.reasons) |-> RuleOf(Signal.reasons[i])] = ExpectedRules
        /\ Le(Signal.confidence, Num(8, 10))
        /\ AllThreeBuy =>
             /\ Signal.action = BUY
             /\ Signal.confidence = Num(8, 10)
             /\ Len(Signal.reasons) = 3

\* the three rules all fired BUY on RSI = 25
C2_Witness ==
    /\ signals # <<>>
    /\ AllLatestDefined
    /\ AllThreeBuy
    /\ Signal.confidence = Num(8, 10)

\* C3: whenever an indicator value read at the last bar is undefined,
\* generate_trading_signals fails with InsufficientHistory and returns no
\* Signal.
C3_UndefinedFailsInsufficientHistory == ~AllLatestDefined => signals = <<>>

---------------------------------------------------------------------------
(* Properties of the dashboard pipeline *)

IndicatorColumns ==
    {"RSI", "MACD", "Signal_Line", "BB_middle", "BB_upper", "BB_lower",
     "Fib_0", "Fib_236", "Fib_382", "Fib_500", "Fib_618", "Fib_100",
     "Support", "Resistance", "Momentum", "PP", "R1", "S1", "R2", "S2"}

\* C4: when the fetched series is empty (an exchange error swallowed by the
\* fetcher included) the analysis fails, the failure is reported to the
\* caller (the error is shown and None is returned) before any indicator is
\* computed, and no Signal is generated afterwards.
C4_EmptySeriesFails ==
    (pc # "start" /\ NRows(raw) = 0) =>
        /\ returned = "None"
        /\ errors = <<"Failed to fetch data">>
        /\ Columns(data) \cap IndicatorColumns = {}
        /\ applied = {}
        /\ signals = <<>>

\* the exchange raised, the fetcher answered pd.DataFrame(), the dashboard ended
C4_Witness ==
    /\ pc = "done"
    /\ raw = EmptyFrame
    /\ returned = "None"
    /\ signals = <<>>

---------------------------------------------------------------------------
(* Properties of the rolling-window indicators *)

Col(c) == data.cols[c]

Rows == 1..NRows(data)

FibColumns == <<"Fib_0", "Fib_236", "Fib_382", "Fib_500", "Fib_618", "Fib_100">>

\* the period each rolling column present in the frame was computed with
RollingPeriod ==
    [c \in {"RSI"} |-> params.rsi] @@
    [c \in {"BB_middle", "BB_upper", "BB_lower"} |-> params.bb] @@
    [c \in {FibColumns[k] : k \in 1..6} |-> params.fib] @@
    [c \in {"Support", "Resistance"} |-> params.sr]

RollingColumns == DOMAIN RollingPeriod \cap Columns(data)

UndefinedPrefix(c) == \A i \in Rows : i < RollingPeriod[c] => ~Defined(Col(c)[i])

\* the close moved between two consecutive bars of the p deltas ending at i
\* (the delta of the first bar has no predecessor and counts as no move)
CloseMoved(i, p) ==
    \E j \in (i - p + 1)..i : j > 1 /\ Col("close")[j] # Col("close")[j - 1]

\* C5 as stated: every rolling column computed with period p is undefined at
\* positions 0..p-2 and defined at every position from p-1 onward.
C5_DefinedFromPeriodOn ==
    \A c \in RollingColumns :
        \A i \in Rows : Defined(Col(c)[i]) <=> i >= RollingPeriod[c]

\* C5 amended: every rolling column is undefined at positions 0..p-2; from
\* position p-1 onward BB_middle, the Fibonacci levels, Support and
\* Resistance are defined, BB_upper and BB_lower are defined exactly when
\* p >= 2, and RSI is defined exactly when the close moved within the
\* window's p deltas.
C5_DefinedFromPeriodOnAmended ==
    \A c \in RollingColumns :
        /\ UndefinedPrefix(c)
        /\ \A i \in Rows :
             i >= RollingPeriod[c] =>
                 (Defined(Col(c)[i]) <=>
                     CASE c = "RSI" -> CloseMoved(i, params.rsi)
                       [] c \in {"BB_upper", "BB_lower"} -> params.bb >= 2
                       [] OTHER -> TRUE)

\* all four operations ran with a window of 2, and past the window the RSI is
\* defined at one bar and undefined at another
C5_Witness ==
    /\ applied = {"rsi", "bollinger", "fibonacci", "support_resistance"}
    /\ params.rsi = 2
    /\ \E i, j \in Rows :
         /\ i >= 2 /\ j >= 2
         /\ Defined(Col("RSI")[i])
         /\ ~Defined(Col("RSI")[j])
         /\ Defined(Col("BB_upper")[i])
         /\ Defined(Col("Fib_236")[i])

\* C6: every defined RSI lies in [0, 100], and RSI = 100 exactly when the
\* rolling mean loss is 0 and the rolling mean gain is positive.
C6_RsiRange ==
    "RSI" \in Columns(data) =>
        \A i \in Rows :
            LET rsi  == Col("RSI")[i]
                gain == RsiGain(Col("close"), params.rsi)[i]
                loss == RsiLoss(Col("close"), params.rsi)[i]
            IN  /\ Defined(rsi) => (Le(Int2V(0), rsi) /\ Le(rsi, Int2V(100)))
                /\ (rsi = Int2V(100)) <=> (loss = Int2V(0) /\ Lt(Int2V(0), gain))

\* one bar has RSI = 100 on a window without a loss, another an RSI strictly
\* inside the range
C6_Witness ==
    /\ "RSI" \in Columns(data)
    /\ \E i, j \in Rows :
         /\ Col("RSI")[i] = Int2V(100)
         /\ RsiLoss(Col("close"), params.rsi)[i] = Int2V(0)
         /\ Lt(Int2V(0), Col("RSI")[j])
         /\ Lt(Col("RSI")[j], Int2V(100))

FibDefined(i) == \A k \in 1..6 : Defined(Col(FibColumns[k])[i])

FibNonDecreasing(i) ==
    \A k \in 1..5 : Le(Col(FibColumns[k])[i], Col(FibColumns[k + 1])[i])

FibDecreasing(i) ==
    \A k \in 1..5 : Lt(Col(FibColumns[k + 1])[i], Col(FibColumns[k])[i])

\* some high of the window ending at i is at least some low of it
WindowHighReachesLow(i, p) ==
    \E j, k \in (i - p + 1)..i : ~Lt(Col("high")[j], Col("low")[k])

\* C7 as stated: for every input series and every position where the
\* Fibonacci columns are defined, Fib_0 <= Fib_236 <= ... <= Fib_100.
C7_FibMonotone ==
    "Fib_0" \in Columns(data) =>
        \A i \in Rows : FibDefined(i) => FibNonDecreasing(i)

\* C7 amended: at every defined position the levels are non-decreasing when
\* some high of the window is at least some low of it (so whenever every bar
\* has low <= high); when every high of the window lies below every low the
\* levels are strictly decreasing.
C7_FibMonotoneAmended ==
    "Fib_0" \in Columns(data) =>
        \A i \in Rows :
            FibDefined(i) =>
                IF WindowHighReachesLow(i, params.fib)
                  THEN FibNonDecreasing(i)
                  ELSE FibDecreasing(i)

\* a defined position whose window spans a real range, the levels strictly apart
C7_Witness ==
    /\ "Fib_0" \in Columns(data)
    /\ \E i \in Rows :
         /\ FibDefined(i)
         /\ WindowHighReachesLow(i, params.fib)
         /\ Lt(Col("Fib_0")[i], Col("Fib_236")[i])
         /\ Lt(Col("Fib_618")[i], Col("Fib_100")[i])

---------------------------------------------------------------------------
(* Properties of the pivot points *)

PivotColumns == {"PP", "R1", "S1", "R2", "S2"}

PivotsDefined(i) == \A c \in PivotColumns : Defined(Col(c)[i])

PivotsOrdered(i) == Lt(Col("PP")[i], Col("R1")[i]) /\ Lt(Col("S1")[i], Col("PP")[i])

CloseWithinBar(i) ==
    ~Lt(Col("close")[i], Col("low")[i]) /\ ~Lt(Col("high")[i], Col("close")[i])

\* C8 as stated: PP, R1, S1, R2 and S2 are defined at every bar, and for
\* every bar with high > low, whatever its close, R1 > PP > S1.
C8_PivotOrder ==
    returned = "frame" =>
        \A i \in Rows :
            /\ PivotsDefined(i)
            /\ Lt(Col("low")[i], Col("high")[i]) => PivotsOrdered(i)

\* C8 amended: PP, R1, S1, R2 and S2 are defined at every bar, and for every
\* bar with high > low whose close lies within [low, high], R1 > PP > S1;
\* for any bar, R1 > PP exactly when PP > low and PP > S1 exactly when
\* PP < high.
C8_PivotOrderAmended ==
    returned = "frame" =>
        \A i \in Rows :
            /\ PivotsDefined(i)
            /\ (Lt(Col("low")[i], Col("high")[i]) /\ CloseWithinBar(i)) => PivotsOrdered(i)
            /\ Lt(Col("PP")[i], Col("R1")[i]) <=> Lt(Col("low")[i], Col("PP")[i])
            /\ Lt(Col("S1")[i], Col("PP")[i]) <=> Lt(Col("PP")[i], Col("high")[i])

\* the first bar of a fetched series has high > low and its close in between
C8_Witness ==
    /\ returned = "frame"
    /\ pc = "done"
    /\ Lt(Col("low")[1], Col("high")[1])
    /\ CloseWithinBar(1)
    /\ Col("close")[1] = Int2V(2)
    /\ PivotsOrdered(1)

---------------------------------------------------------------------------
(* Properties of the library as a whole *)

\* the columns each operation assigns
Produces ==
    [op \in AllOps |->
        CASE op = "rsi" -> {"RSI"}
          [] op = "macd" -> {"MACD", "Signal_Line"}
          [] op = "bollinger" -> {"BB_middle", "BB_upper", "BB_lower"}
          [] op = "fibonacci" -> {FibColumns[k] : k \in 1..6}
          [] op = "support_resistance" -> {"Support", "Resistance"}
          [] op = "momentum" -> {"Momentum"}
          [] OTHER -> PivotColumns]

\* C9: every indicator operation, in any sequence, keeps the number and the
\* order of the rows and the values of every column it does not itself
\* produce, removes no column, and gives each column it adds one value per
\* bar; generate_trading_signals changes nothing in the series.
C9_FrameKept ==
    [][LET produced == UNION {Produces[op] : op \in applied' \ applied}
       IN  /\ data'.index = data.index
           /\ Columns(data') = Columns(data) \cup produced
           /\ \A c \in Columns(data) \ produced : data'.cols[c] = data.cols[c]
           /\ \A c \in Columns(data') : Len(data'.cols[c]) = NRows(data)
           /\ signals' # signals => data' = data]_vars

\* every operation ran on a series of two bars or more and a signal came out
C9_Witness ==
    /\ applied = AllOps
    /\ NRows(data) >= 2
    /\ Columns(data) = RawColumns \cup IndicatorColumns
    /\ signals # <<>>

\* C10: the seven operations applied to the same raw series in any order
\* leave the columns and the values that the order of
\* fetch_and_analyze_data leaves.
C10_OrderIndependent == applied = AllOps => data = Analyze(raw, params)

\* all seven ran on a series long enough for the lag and the windows
C10_Witness ==
    /\ applied = AllOps
    /\ NRows(data) >= 2
    /\ Defined(Last(Col("Momentum")))
    /\ Defined(Last(Col("BB_middle")))
    /\ Last(Col("MACD")) # Int2V(0)

====
